---- MODULE Spec2Model ----
(***************************************************************************)
(* A model of tract's Tensor (data/src/tensor.rs): the metadata of a       *)
(* tensor (datum type, shape, strides, layout, data pointer), the buffers  *)
(* the tensors point into, and the operations that reshape, assign, clone, *)
(* cast and drop them.  Every operation of the source is a pure operator   *)
(* that keeps the source's name; the actions apply these operators to the  *)
(* state.                                                                  *)
(***************************************************************************)
EXTENDS Integers, Sequences, FiniteSets, TLC

VARIABLES
    tensors,   \* tensor id -> Tensor record, or NoTensor once dropped / never built
    mem,       \* buffer id -> the allocation behind a data pointer
    objs,      \* heap-owning element id -> how many times its destructor ran
    op,        \* name of the last operation
    res,       \* its outcome: "Ok", an error, "Panic", or "UB" (undefined behaviour)
    call       \* the arguments of the assign_slice or cast_to_dt call of the run

vars == <<tensors, mem, objs, op, res, call>>

-----------------------------------------------------------------------------
(* Bounds of the model *)

\* tensors are not grown beyond this rank by insert_axis / broadcast_to_rank
MaxRank == 5
\* largest rank of a shape given to a constructor or to set_shape
MaxArgRank == 2
\* how many tensors a run builds, clones included
MaxTensors == 2
\* the largest rank of the tensors assign_slice is called on
MaxAssignRank == 3

\* the longest byte content handed to from_raw_dt_align
MaxContent == 5

-----------------------------------------------------------------------------
(* Sequence helpers *)

RECURSIVE Prod(_)
\* shape.iter().product::<usize>()
Prod(s) == IF s = <<>> THEN 1 ELSE Head(s) * Prod(Tail(s))

Reverse(s) == [i \in 1..Len(s) |-> s[Len(s) + 1 - i]]

\* SmallVec::insert(index, x), 0-based; the caller checks index <= len
SeqInsert(s, index, x) == SubSeq(s, 1, index) \o <<x>> \o SubSeq(s, index + 1, Len(s))

\* SmallVec::remove(index), 0-based; the caller checks index < len
SeqRemove(s, index) == SubSeq(s, 1, index) \o SubSeq(s, index + 2, Len(s))

RECURSIVE SeqsUpTo(_, _)
\* all sequences over S of length at most n
SeqsUpTo(S, n) ==
    IF n = 0 THEN {<<>>}
    ELSE LET shorter == SeqsUpTo(S, n - 1)
         IN  shorter \cup {Append(s, x) : s \in {q \in shorter : Len(q) = n - 1}, x \in S}

\* the row-major rule: the stride of an axis is the number of elements of
\* one step along it, the product of the lengths of the axes after it
RowMajor(shape) == [k \in 1..Len(shape) |-> Prod(SubSeq(shape, k + 1, Len(shape)))]

-----------------------------------------------------------------------------
(* DatumType: the closed set of element kinds and their facts *)

DatumTypes ==
    {"Bool", "U8", "U16", "U32", "U64", "I8", "I16", "I32", "I64",
     "F16", "F32", "F64", "TDim", "String", "Blob"}

\* DatumType::size_of
size_of(dt) ==
    CASE dt \in {"Bool", "U8", "I8"} -> 1
      [] dt \in {"U16", "I16", "F16"} -> 2
      [] dt \in {"U32", "I32", "F32"} -> 4
      [] dt \in {"U64", "I64", "F64"} -> 8
      [] dt = "TDim" -> 32
      [] dt \in {"String", "Blob"} -> 24

\* DatumType::alignment
alignment(dt) == IF dt \in {"TDim", "String", "Blob"} THEN 8 ELSE size_of(dt)

\* DatumType::is_copy
is_copy(dt) == dt \notin {"TDim", "String", "Blob"}

-----------------------------------------------------------------------------
(* Memory: raw allocations and heap-owning elements *)

\* std::ptr::null()
NULL == 0

\* the alloc::Layout of a buffer
Layout(size, align) == [size |-> size, align |-> align]

RECURSIVE IsPow2(_)
IsPow2(a) == a > 0 /\ (a = 1 \/ (a % 2 = 0 /\ IsPow2(a \div 2)))

\* alloc::Layout::from_size_align: an error unless align is a power of two
from_size_align(size, align) ==
    IF IsPow2(align) THEN [res |-> "Ok", layout |-> Layout(size, align)]
    ELSE [res |-> "Err", layout |-> Layout(0, 0)]

\* A heap is the pair of the buffers and the heap-owning elements made so far.
\* A buffer records whether the allocator was called for it and with which
\* layout, its elements, and the layouts it was handed back with.
NewBuffer(allocated, layout, elems) ==
    [allocated |-> allocated, layout |-> layout, elems |-> elems, deallocs |-> <<>>]

\* the pointer the next allocation returns
NextPtr(h) == Len(h.mem) + 1

\* alloc::alloc(layout) (or the allocation behind a Box / Vec), holding elems
Alloc(h, allocated, layout, elems) ==
    [h EXCEPT !.mem = Append(h.mem, NewBuffer(allocated, layout, elems))]

\* n fresh heap-owning elements (String, TDim, Blob values): their ids
FreshObjs(h, n) == [k \in 1..n |-> Len(h.objs) + k]

\* the heap once fresh elements of these values exist, none of them dropped yet
WithFreshObjs(h, vals) ==
    [h EXCEPT !.objs = h.objs \o [k \in 1..Len(vals) |-> [val |-> vals[k], drops |-> 0]]]

\* the values of T::default() for n elements
Defaults(n) == [k \in 1..n |-> 0]

EmptyHeap == [mem |-> <<>>, objs |-> <<>>]

-----------------------------------------------------------------------------
(* Tensor: metadata *)

NoTensor == [dt |-> "none"]

IsTensor(t) == t.dt # "none"

\* Tensor::rank
rank(self) == Len(self.shape)

\* Tensor::len
len(self) == Prod(self.shape)

RECURSIVE StridePush(_, _)
\* the loop of the general case: for each dim, push(last * dim)
StridePush(strides, dims) ==
    IF dims = <<>> THEN strides
    ELSE StridePush(Append(strides, strides[Len(strides)] * Head(dims)), Tail(dims))

\* compute_natural_stride_to with a general case that forgets skip(1): one
\* stride too many for the ranks above 4
compute_natural_stride_to_no_skip(strides, shape) ==
    CASE Len(shape) = 0 -> strides
      [] Len(shape) = 1 -> Append(strides, 1)
      [] Len(shape) = 2 -> strides \o <<shape[2], 1>>
      [] Len(shape) = 3 -> strides \o <<shape[2] * shape[3], shape[3], 1>>
      [] Len(shape) = 4 ->
            strides \o <<shape[2] * shape[3] * shape[4], shape[3] * shape[4], shape[4], 1>>
      [] OTHER -> Reverse(StridePush(Append(strides, 1), Reverse(shape)))

\* compute_natural_stride_to(strides, shape)
compute_natural_stride_to(strides, shape) ==
    CASE Len(shape) = 0 -> strides
      [] Len(shape) = 1 -> Append(strides, 1)
      [] Len(shape) = 2 -> strides \o <<shape[2], 1>>
      [] Len(shape) = 3 -> strides \o <<shape[2] * shape[3], shape[3], 1>>
      [] Len(shape) = 4 ->
            strides \o <<shape[2] * shape[3] * shape[4], shape[3] * shape[4], shape[4], 1>>
      [] OTHER -> Reverse(StridePush(Append(strides, 1), Reverse(Tail(shape))))

\* natural_strides
natural_strides(shape) == compute_natural_stride_to(<<>>, shape)

\* Tensor::update_strides
update_strides(self) ==
    [self EXCEPT !.strides = compute_natural_stride_to(<<>>, self.shape)]

\* Tensor::set_shape_unchecked
set_shape_unchecked(self, shape) ==
    IF shape # self.shape THEN update_strides([self EXCEPT !.shape = shape])
    ELSE self

\* set_shape comparing the ranks where the code compares the element counts
set_shape_same_rank(self, shape) ==
    IF rank(self) # Len(shape) THEN [res |-> "Err", t |-> self]
    ELSE [res |-> "Ok", t |-> set_shape_unchecked(self, shape)]

\* Tensor::set_shape
set_shape(self, shape) ==
    IF len(self) # Prod(shape) THEN [res |-> "Err", t |-> self]
    ELSE [res |-> "Ok", t |-> set_shape_unchecked(self, shape)]

\* Tensor::insert_axis; each SmallVec::insert panics when axis > len, the
\* second one after the shape was already changed
insert_axis(self, axis) ==
    IF axis > Len(self.shape) THEN [res |-> "Panic", t |-> self]
    ELSE LET shaped == [self EXCEPT !.shape = SeqInsert(self.shape, axis, 1)]
         IN  IF axis > Len(self.strides) THEN [res |-> "Panic", t |-> shaped]
             ELSE [res |-> "Ok",
                   t |-> [shaped EXCEPT
                            !.strides = SeqInsert(self.strides, axis,
                                  IF axis < Len(self.strides) THEN self.strides[axis + 1]
                                  ELSE 1)]]

\* Tensor::remove_axis; each SmallVec::remove panics when axis >= len
remove_axis(self, axis) ==
    IF axis >= Len(self.shape) THEN [res |-> "Panic", t |-> self]
    ELSE LET shaped == [self EXCEPT !.shape = SeqRemove(self.shape, axis)]
         IN  IF axis >= Len(self.strides) THEN [res |-> "Panic", t |-> shaped]
             ELSE [res |-> "Ok",
                   t |-> [shaped EXCEPT !.strides = SeqRemove(self.strides, axis)]]

\* Tensor::broadcast_to_rank
broadcast_to_rank(self, r) ==
    IF r < rank(self) THEN [res |-> "Err", t |-> self]
    ELSE [res |-> "Ok",
          t |-> update_strides(
                  [self EXCEPT !.shape = [k \in 1..(r - rank(self)) |-> 1] \o self.shape])]

\* Tensor::broadcast_into_rank
broadcast_into_rank(self, r) ==
    LET b == broadcast_to_rank(self, r)
    IN  IF b.res # "Ok" THEN b ELSE [res |-> "Ok", t |-> update_strides(b.t)]

-----------------------------------------------------------------------------
(* Tensor: construction and drop *)

\* the elements of the buffer a tensor points to
Elems(h, self) ==
    IF self.data = NULL \/ self.data > Len(h.mem) THEN <<>> ELSE h.mem[self.data].elems

\* Tensor::from_copy_datum: the tensor takes over the boxed slice vec of an
\* array of the given shape; a boxed slice of zero bytes is not allocated
from_copy_datum(dt, shape, vec, h) ==
    LET layout == Layout(Len(vec) * size_of(dt), alignment(dt))
    IN  [res |-> "Ok",
         t |-> update_strides([dt |-> dt, shape |-> shape, strides |-> <<>>,
                               layout |-> layout, data |-> NextPtr(h)]),
         h |-> Alloc(h, layout.size > 0, layout, vec)]

\* Tensor::uninitialized_aligned_dt.  String and TDim tensors are built from
\* an array of default values; the other kinds get raw memory, whose content
\* is indeterminate (0 here: no valid heap-owning element has id 0)
uninitialized_aligned_dt(dt, shape, align, h) ==
    IF dt \in {"String", "TDim"}
    THEN from_copy_datum(dt, shape, FreshObjs(h, Prod(shape)),
                         WithFreshObjs(h, Defaults(Prod(shape))))
    ELSE LET bytes == Prod(shape) * size_of(dt)
             l == from_size_align(bytes, align)
         IN  IF l.res # "Ok" THEN [res |-> "Err", t |-> NoTensor, h |-> h]
             ELSE [res |-> "Ok",
                   t |-> update_strides(
                           [dt |-> dt, shape |-> shape, strides |-> <<>>,
                            layout |-> l.layout,
                            data |-> IF bytes = 0 THEN NULL ELSE NextPtr(h)]),
                   h |-> IF bytes = 0 THEN h
                         ELSE Alloc(h, TRUE, l.layout, [k \in 1..Prod(shape) |-> 0])]

\* Tensor::uninitialized_dt
uninitialized_dt(dt, shape, h) == uninitialized_aligned_dt(dt, shape, alignment(dt), h)

RECURSIVE DropInPlace(_, _)
\* std::ptr::drop_in_place on each element of a slice: one more destructor
\* run for each of them
DropInPlace(objects, slice) ==
    IF slice = <<>> THEN objects
    ELSE DropInPlace([objects EXCEPT ![Head(slice)].drops = @ + 1], Tail(slice))

\* the first half of Drop for Tensor: the destructors of the len() elements
\* of a Blob, String or TDim tensor.  Reading past the buffer, through a
\* null pointer, from a released buffer, or an element that was never
\* written is undefined, and so is the destructor of an element that was
\* destroyed already.
drop_elements(self, h) ==
    IF is_copy(self.dt) THEN [res |-> "Ok", h |-> h]
    ELSE LET elems == Elems(h, self)
             n == len(self)
         IN  IF \/ n > Len(elems)
                \/ \E k \in 1..n : elems[k] < 1 \/ elems[k] > Len(h.objs)
                \/ n > 0 /\ h.mem[self.data].deallocs # <<>>
             THEN [res |-> "UB", h |-> h]
             ELSE [res |-> IF \E k \in 1..n : h.objs[elems[k]].drops > 0
                           THEN "UB" ELSE "Ok",
                   h |-> [h EXCEPT !.objs = DropInPlace(h.objs, SubSeq(elems, 1, n))]]

\* the second half of Drop for Tensor: alloc::dealloc(self.data, self.layout)
drop_buffer(self, h) ==
    IF self.data # NULL /\ self.layout.size > 0
    THEN [h EXCEPT !.mem[self.data].deallocs = Append(@, self.layout)]
    ELSE h

\* Drop for Tensor
drop(self, h) ==
    LET d == drop_elements(self, h)
    IN  [res |-> d.res, h |-> drop_buffer(self, d.h)]

\* Tensor::into_shape: the tensor is consumed, and dropped when set_shape fails
into_shape(self, shape, h) ==
    LET r == set_shape(self, shape)
    IN  IF r.res = "Ok" THEN [res |-> "Ok", t |-> r.t, h |-> h]
        ELSE [res |-> "Err", t |-> NoTensor, h |-> drop(self, h).h]

\* the values of the heap-owning elements of a slice
Vals(h, slice) == [k \in 1..Len(slice) |-> h.objs[slice[k]].val]

\* whether as_slice / a raw copy of len() elements stays inside the buffer
\* and, for the kinds that own heap data, reads only written elements
Readable(self, h) ==
    LET elems == Elems(h, self)
    IN  /\ len(self) <= Len(elems)
        /\ is_copy(self.dt) \/ \A k \in 1..len(self) : elems[k] \in 1..Len(h.objs)

\* Tensor::deep_clone.  String and TDim: to_vec() clones each element into a
\* new Vec, and the clone keeps the layout of self.  Every other kind: a raw
\* copy of len() * size_of() bytes into a tensor of uninitialized_dt.
deep_clone(self, h) ==
    IF ~Readable(self, h) THEN [res |-> "UB", t |-> NoTensor, h |-> h]
    ELSE LET slice == SubSeq(Elems(h, self), 1, len(self))
         IN  IF self.dt \in {"String", "TDim"}
             THEN LET cloned == WithFreshObjs(h, Vals(h, slice))
                      data == FreshObjs(h, Len(slice))
                      vecLayout == Layout(Len(data) * size_of(self.dt), alignment(self.dt))
                  IN  [res |-> "Ok",
                       t |-> [self EXCEPT !.data = NextPtr(h)],
                       h |-> Alloc(cloned, vecLayout.size > 0, vecLayout, data)]
             ELSE LET u == uninitialized_dt(self.dt, self.shape, h)
                  IN  IF u.res # "Ok" THEN [res |-> "Panic", t |-> NoTensor, h |-> h]
                      ELSE [res |-> "Ok",
                            t |-> u.t,
                            h |-> IF u.t.data = NULL THEN u.h
                                  ELSE [u.h EXCEPT !.mem[u.t.data].elems = slice]]

-----------------------------------------------------------------------------
(* Tensor: assign_slice *)

\* std::ops::Bound
Included(ix) == [kind |-> "Included", ix |-> ix]
Excluded(ix) == [kind |-> "Excluded", ix |-> ix]
Unbounded == [kind |-> "Unbounded", ix |-> 0]

\* Tensor::clip_range_bounds; indexing shape()[axis] panics when axis >= rank
clip_range_bounds(self, axis, range) ==
    LET start == CASE range.start.kind = "Included" -> range.start.ix
                   [] range.start.kind = "Excluded" -> range.start.ix + 1
                   [] OTHER -> 0
    IN  IF range.end.kind = "Unbounded" /\ axis >= rank(self)
        THEN [res |-> "Panic", start |-> start, end |-> 0]
        ELSE [res |-> "Ok",
              start |-> start,
              end |-> CASE range.end.kind = "Included" -> range.end.ix + 1
                        [] range.end.kind = "Excluded" -> range.end.ix
                        [] OTHER -> self.shape[axis + 1]]

\* Range<usize>::len
RangeLen(r) == IF r.start >= r.end THEN 0 ELSE r.end - r.start

\* the element of a buffer seen as a value of its kind: the heap-owning
\* kinds hold an element whose value lives on the heap
ValueAt(h, dt, ptr, k) ==
    IF is_copy(dt) THEN h.mem[ptr].elems[k] ELSE h.objs[h.mem[ptr].elems[k]].val

\* the multi-index (0-based) of the p-th element (0-based) of an array of
\* this shape, in logical order
MultiIndex(shape, p) == [k \in 1..Len(shape) |-> (p \div RowMajor(shape)[k]) % shape[k]]

RECURSIVE Dot(_, _)
Dot(a, b) == IF a = <<>> THEN 0 ELSE Head(a) * Head(b) + Dot(Tail(a), Tail(b))

\* the offset of an element in the view ArrayViewD::from_shape_ptr(shape, ptr)
\* makes: the strides are those of a standard-layout array of that shape
ViewOffset(shape, index) == Dot(index, natural_strides(shape))

\* *x = y.clone() on element dl of self from element sl of src (1-based
\* positions in the buffers); the old value of a heap-owning kind is dropped
AssignElem(self, dl, src, sl, h) ==
    IF is_copy(self.dt)
    THEN [h EXCEPT !.mem[self.data].elems[dl] = h.mem[src.data].elems[sl]]
    ELSE LET y == h.mem[src.data].elems[sl]
             x == h.mem[self.data].elems[dl]
             cloned == WithFreshObjs(h, <<h.objs[y].val>>)
         IN  [cloned EXCEPT !.mem[self.data].elems[dl] = Len(cloned.objs),
                            !.objs[x].drops = @ + 1]

RECURSIVE AssignLoop(_, _, _, _, _, _, _, _, _)
\* the loop of ArrayBase::assign over the two sliced views, element p of n
AssignLoop(self, to_start, src, from_start, axis, view, p, n, h) ==
    IF p >= n THEN h
    ELSE LET ix == MultiIndex(view, p)
             dl == ViewOffset(self.shape, [ix EXCEPT ![axis + 1] = @ + to_start]) + 1
             sl == ViewOffset(src.shape, [ix EXCEPT ![axis + 1] = @ + from_start]) + 1
         IN  AssignLoop(self, to_start, src, from_start, axis, view, p + 1, n,
                        AssignElem(self, dl, src, sl, h))

\* assign_slice_t: to.slice_axis_mut(axis, to_range).assign(from.slice_axis(axis, from_range)).
\* ndarray's slice raises end to start when end < start, and panics when the
\* slice starts past the end of the axis; the views trust the buffers to
\* hold len() elements.
assign_slice_t(to, to_range, from, from_range, axis, h) ==
    IF \/ to_range.start > to.shape[axis + 1]
       \/ from_range.start > from.shape[axis + 1]
    THEN [res |-> "Panic", h |-> h]
    ELSE IF \/ len(to) > Len(Elems(h, to))
            \/ len(from) > Len(Elems(h, from))
         THEN [res |-> "UB", h |-> h]
         ELSE LET view == [to.shape EXCEPT ![axis + 1] = RangeLen(to_range)]
              IN  [res |-> "Ok",
                   h |-> AssignLoop(to, to_range.start, from, from_range.start, axis,
                                    view, 0, Prod(view), h)]

\* the raw copy of assign_slice_from_resolved: ptr::copy when both tensors
\* share their buffer, ptr::copy_nonoverlapping otherwise; stride, starts and
\* len counted in elements here.  A copy that leaves a buffer is undefined.
raw_copy(self, range, src, src_range, h) ==
    LET stride == self.strides[1]
        dst_start == stride * range.start
        src_start == stride * src_range.start
        n == stride * RangeLen(range)
        from == Elems(h, src)
        to == Elems(h, self)
    IN  IF src_start + n > Len(from) \/ dst_start + n > Len(to)
        THEN [res |-> "UB", h |-> h]
        ELSE IF n = 0 THEN [res |-> "Ok", h |-> h]
        ELSE [res |-> "Ok",
              h |-> [h EXCEPT !.mem[self.data].elems =
                        [k \in 1..Len(to) |->
                            IF k > dst_start /\ k <= dst_start + n
                            THEN from[src_start + (k - dst_start)]
                            ELSE to[k]]]]

\* Tensor::assign_slice_from_resolved
assign_slice_from_resolved(self, range, src, src_range, axis, h) ==
    IF axis = 0 /\ is_copy(self.dt)
    THEN IF Len(self.strides) = 0 THEN [res |-> "Panic", h |-> h]
         ELSE raw_copy(self, range, src, src_range, h)
    ELSE assign_slice_t(self, range, src, src_range, axis, h)

\* itertools::izip!(0.., self.shape(), src.shape()).all(|(ix, dst, src)| ix == axis || src == dst)
SameShapeButAxis(self, src, axis) ==
    \A k \in 1..Len(self.shape) :
        k <= Len(src.shape) => (k - 1 = axis \/ src.shape[k] = self.shape[k])

\* Tensor::assign_slice: the two ranges are resolved, then the five
\* anyhow::ensure! run in this order, then the copy.  src.shape()[axis] and
\* self.shape()[axis] panic when axis is not an axis.
assign_slice(self, range, src, src_range, axis, h) ==
    LET r == clip_range_bounds(self, axis, range)
        sr == clip_range_bounds(src, axis, src_range)
    IN  CASE r.res = "Panic" \/ sr.res = "Panic" -> [res |-> "Panic", h |-> h]
          [] OTHER ->
             CASE src.dt # self.dt -> [res |-> "ErrDatumType", h |-> h]
               [] OTHER ->
             CASE RangeLen(sr) # RangeLen(r) -> [res |-> "ErrRangeLen", h |-> h]
               [] OTHER ->
             CASE ~(rank(self) = rank(src) /\ SameShapeButAxis(self, src, axis)) ->
                    [res |-> "ErrShape", h |-> h]
               [] OTHER ->
             CASE axis >= rank(src) -> [res |-> "Panic", h |-> h]
               [] OTHER ->
             CASE ~(sr.end <= src.shape[axis + 1]) -> [res |-> "ErrSrcRange", h |-> h]
               [] OTHER ->
             CASE axis >= rank(self) -> [res |-> "Panic", h |-> h]
               [] OTHER ->
             CASE ~(r.end <= self.shape[axis + 1]) -> [res |-> "ErrDstRange", h |-> h]
               [] OTHER -> assign_slice_from_resolved(self, r, src, sr, axis, h)

-----------------------------------------------------------------------------
(* Tensor: cast_to_dt.  The elements of the numeric kinds and of Bool are
   integers (false 0, true 1; a float holds a whole number); the elements of
   String, TDim and Blob own a text, a sequence of characters. *)

is_integer(dt) == dt \in {"U8", "U16", "U32", "U64", "I8", "I16", "I32", "I64"}

is_float(dt) == dt \in {"F16", "F32", "F64"}

is_signed(dt) == dt \in {"I8", "I16", "I32", "I64"}

\* the kinds narrower than the integers the elements are drawn from
is_narrow(dt) == size_of(dt) < 4

MinOf(dt) == IF is_signed(dt) THEN -(2 ^ (8 * size_of(dt) - 1)) ELSE 0

MaxOf(dt) == IF is_signed(dt) THEN 2 ^ (8 * size_of(dt) - 1) - 1 ELSE 2 ^ (8 * size_of(dt)) - 1

\* whether an integer is a value of an integer kind; the wide kinds hold
\* every integer that occurs, but for the negative ones when unsigned
InRange(dt, v) ==
    IF is_narrow(dt) THEN v >= MinOf(dt) /\ v <= MaxOf(dt)
    ELSE is_signed(dt) \/ v >= 0

\* num_traits::AsPrimitive::as_, the `as` of the language: to a float
\* exact, from a float to an integer saturating, between integers wrapping
\* to the width of the target
as_(source, target, v) ==
    CASE is_float(target) -> v
      [] is_float(source) /\ is_narrow(target) ->
            IF v < MinOf(target) THEN MinOf(target)
            ELSE IF v > MaxOf(target) THEN MaxOf(target) ELSE v
      [] is_float(source) -> IF v < 0 /\ ~is_signed(target) THEN 0 ELSE v
      [] is_narrow(target) ->
            LET m == 2 ^ (8 * size_of(target))
                u == v % m
            IN  IF is_signed(target) /\ u > MaxOf(target) THEN u - m ELSE u
      [] OTHER -> v

DigitChars == <<"0", "1", "2", "3", "4", "5", "6", "7", "8", "9">>

IsDigit(c) == \E d \in 1..10 : DigitChars[d] = c

DigitVal(c) == (CHOOSE d \in 1..10 : DigitChars[d] = c) - 1

RECURSIVE Digits(_)
\* the decimal digits of a natural number
Digits(n) ==
    IF n < 10 THEN <<DigitChars[n + 1]>>
    ELSE Append(Digits(n \div 10), DigitChars[(n % 10) + 1])

RECURSIVE DigitsVal(_)
DigitsVal(text) ==
    IF text = <<>> THEN 0
    ELSE 10 * DigitsVal(SubSeq(text, 1, Len(text) - 1)) + DigitVal(text[Len(text)])

\* ToString of a number: whole floats print without a fraction
NumberToString(v) == IF v < 0 THEN <<"-">> \o Digits(-v) ELSE Digits(v)

\* ToString::to_string of an element of a kind
to_string(source, v) ==
    CASE source = "Bool" -> IF v = 0 THEN <<"f", "a", "l", "s", "e">> ELSE <<"t", "r", "u", "e">>
      [] is_copy(source) -> NumberToString(v)
      [] OTHER -> v

\* a text that is digits after an optional sign
IsNumeral(text, signs) ==
    LET body == IF text # <<>> /\ text[1] \in signs THEN Tail(text) ELSE text
    IN  body # <<>> /\ \A k \in 1..Len(body) : IsDigit(body[k])

NumeralVal(text) ==
    CASE text[1] = "-" -> -DigitsVal(Tail(text))
      [] text[1] = "+" -> DigitsVal(Tail(text))
      [] OTHER -> DigitsVal(text)

\* str::parse::<Target>: [ok, v].  The integers take digits after a sign
\* (no minus sign for the unsigned ones) within their range, the floats
\* the same (the texts of the model hold no fraction and no exponent), Bool
\* takes true and false, String and Blob any text, TDim a whole number or a
\* symbol.
parse(target, text) ==
    CASE is_integer(target) ->
            IF IsNumeral(text, IF is_signed(target) THEN {"+", "-"} ELSE {"+"})
               /\ InRange(target, NumeralVal(text))
            THEN [ok |-> TRUE, v |-> NumeralVal(text)]
            ELSE [ok |-> FALSE, v |-> 0]
      [] is_float(target) ->
            IF IsNumeral(text, {"+", "-"}) THEN [ok |-> TRUE, v |-> NumeralVal(text)]
            ELSE [ok |-> FALSE, v |-> 0]
      [] target = "Bool" ->
            IF text = <<"t", "r", "u", "e">> THEN [ok |-> TRUE, v |-> 1]
            ELSE IF text = <<"f", "a", "l", "s", "e">> THEN [ok |-> TRUE, v |-> 0]
            ELSE [ok |-> FALSE, v |-> 0]
      [] target = "TDim" ->
            IF text = <<>> THEN [ok |-> FALSE, v |-> text] ELSE [ok |-> TRUE, v |-> text]
      [] OTHER -> [ok |-> TRUE, v |-> text]

\* TDim::to_i64: the integer of a dimension that is not symbolic
to_i64(text) ==
    IF IsNumeral(text, {"-"}) THEN [ok |-> TRUE, v |-> NumeralVal(text)]
    ELSE [ok |-> FALSE, v |-> 0]

\* the len() elements of a tensor as values of its kind
SelfVals(self, h) == [k \in 1..len(self) |-> ValueAt(h, self.dt, self.data, k)]

\* a loop that leaves the last element of the result as it was
write_elems_but_last(result, vals, h) ==
    IF Len(vals) = 0 \/ ~is_copy(result.dt) THEN [res |-> "Ok", h |-> h]
    ELSE [res |-> "Ok",
          h |-> [h EXCEPT !.mem[result.data].elems =
                    [k \in 1..Len(vals) |-> IF k < Len(vals) THEN vals[k] ELSE @[k]]]]

\* for (s, d) in source.zip(result.as_slice_mut_unchecked()) { *d = value }:
\* assigning drops the value the element held, which for a Blob, String or
\* TDim element of raw memory is undefined
write_elems(result, vals, h) ==
    IF Len(vals) = 0 THEN [res |-> "Ok", h |-> h]
    ELSE IF is_copy(result.dt)
    THEN [res |-> "Ok", h |-> [h EXCEPT !.mem[result.data].elems = vals]]
    ELSE LET old == h.mem[result.data].elems
         IN  IF \E k \in 1..Len(old) : old[k] < 1 \/ old[k] > Len(h.objs)
             THEN [res |-> "UB", h |-> h]
             ELSE LET dropped == [h EXCEPT !.objs = DropInPlace(h.objs, old)]
                      written == WithFreshObjs(dropped, vals)
                  IN  [res |-> "Ok",
                       h |-> [written EXCEPT !.mem[result.data].elems =
                                 [k \in 1..Len(vals) |-> Len(dropped.objs) + k]]]

\* what cast_to_dt returns: Ok(Cow::Borrowed(self)), Ok(Cow::Owned(t)), an
\* error, or a panic
Borrowed(self, h) == [res |-> "Ok", cow |-> "Borrowed", t |-> self, h |-> h]

Owned(t, h) == [res |-> "Ok", cow |-> "Owned", t |-> t, h |-> h]

Failed(outcome, h) == [res |-> outcome, cow |-> "None", t |-> NoTensor, h |-> h]

\* the error of cast_from_string, "Could not parse {} as {:?}": it names
\* the text that did not parse
ParseFailed(text, h) ==
    [res |-> "Err", cow |-> "None", t |-> NoTensor, h |-> h, naming |-> text]

\* a tensor going out of scope on the way out of cast_to_dt: when its drop
\* is undefined, so is the call
Dropping(t, h, r) ==
    LET d == drop(t, h)
    IN  IF d.res = "UB" THEN Failed("UB", d.h) ELSE [r EXCEPT !.h = d.h]

\* Cow::into_owned: a borrowed tensor is cloned
into_owned(r) ==
    IF r.cow = "Borrowed"
    THEN LET c == deep_clone(r.t, r.h) IN Owned(c.t, c.h)
    ELSE r

RECURSIVE cast_to_dt(_, _, _)

\* the two-hop casts of TDim and of Bool: the values go into a tensor of
\* integers ints, and ints.cast_to_dt(dt)?.into_owned() is the result
cast_through(self, mid, vals, dt, h) ==
    LET u == uninitialized_dt(mid, self.shape, h)
        ints == write_elems(u.t, vals, u.h)
        r == cast_to_dt(u.t, dt, ints.h)
    IN  IF r.res # "Ok" THEN Dropping(u.t, r.h, r)
        ELSE LET o == into_owned(r) IN Dropping(u.t, o.h, o)

\* cast_to_dt past the test of the kinds: the conversion rules in the order
\* of the source
cast_convert(self, dt, h) ==
    IF ~Readable(self, h) THEN Failed("UB", h) ELSE
    LET vals == SelfVals(self, h)
        n == Len(vals)
        result == uninitialized_dt(dt, self.shape, h)
        fill(converted) ==
            LET w == write_elems(result.t, converted, result.h)
            IN  IF w.res = "Ok" THEN Owned(result.t, w.h) ELSE Failed(w.res, w.h)
    IN  CASE self.dt = "TDim" /\ (is_integer(dt) \/ is_float(dt)) ->
                IF \E k \in 1..n : ~to_i64(vals[k]).ok
                THEN Dropping(uninitialized_dt("I64", self.shape, h).t,
                              uninitialized_dt("I64", self.shape, h).h, Failed("Err", h))
                ELSE cast_through(self, "I64", [k \in 1..n |-> to_i64(vals[k]).v], dt, h)
          [] self.dt = "Bool" /\ (is_integer(dt) \/ is_float(dt)) ->
                cast_through(self, "I8", vals, dt, h)
          [] self.dt = "String" ->
                IF \E k \in 1..n : ~parse(dt, vals[k]).ok
                THEN LET first == CHOOSE k \in 1..n :
                                     /\ ~parse(dt, vals[k]).ok
                                     /\ \A j \in 1..(k - 1) : parse(dt, vals[j]).ok
                     IN  Dropping(result.t, result.h, ParseFailed(vals[first], h))
                ELSE fill([k \in 1..n |-> parse(dt, vals[k]).v])
          [] dt = "String" ->
                fill([k \in 1..n |-> to_string(self.dt, vals[k])])
          [] is_integer(self.dt) \/ is_float(self.dt) ->
                CASE is_integer(dt) \/ is_float(dt) ->
                        fill([k \in 1..n |-> as_(self.dt, dt, vals[k])])
                  [] dt = "TDim" ->
                        LET ints == cast_to_dt(self, "I32", result.h)
                            slice == SelfVals(ints.t, ints.h)
                            w == write_elems(result.t,
                                             [k \in 1..n |-> NumberToString(slice[k])],
                                             ints.h)
                            r == IF w.res = "Ok" THEN Owned(result.t, w.h)
                                 ELSE Failed(w.res, w.h)
                        IN  IF ints.cow = "Owned" THEN Dropping(ints.t, r.h, r) ELSE r
                  [] dt = "Bool" ->
                        fill([k \in 1..n |-> IF vals[k] = 0 THEN 0 ELSE 1])
                  [] OTHER -> Dropping(result.t, result.h, Failed("Panic", h))
          [] OTHER -> Dropping(result.t, result.h, Failed("Err", h))

\* a cast_to_dt that converts whatever the kinds
cast_to_dt_converting(self, dt, h) == cast_convert(self, dt, h)

\* Tensor::cast_to_dt
cast_to_dt(self, dt, h) ==
    IF self.dt = dt THEN Borrowed(self, h)
    ELSE cast_convert(self, dt, h)

\* Tensor::to_scalar: check_for_access, then &*as_ptr(): the element the data
\* pointer points to, whatever the rank.  Without elements the pointer is
\* null or dangling, and reading through it is undefined.
to_scalar(self, dt, h) ==
    IF self.dt # dt THEN [res |-> "Err", value |-> 0]
    ELSE IF Len(Elems(h, self)) = 0 \/ h.mem[self.data].deallocs # <<>>
    THEN [res |-> "UB", value |-> 0]
    ELSE [res |-> "Ok", value |-> ValueAt(h, dt, self.data, 1)]

\* Tensor::cast_to_scalar: cast_to::<D>()?, then to_scalar of the result,
\* which is dropped on the way out when the cast made a tensor
cast_to_scalar(self, dt, h) ==
    LET scalar(casted) ==
            IF casted.res # "Ok" THEN [res |-> casted.res, value |-> 0, h |-> casted.h]
            ELSE LET s == to_scalar(casted.t, dt, casted.h)
                     d == IF casted.cow = "Owned" THEN drop(casted.t, casted.h)
                          ELSE [res |-> "Ok", h |-> casted.h]
                 IN  [res |-> IF d.res = "UB" THEN "UB" ELSE s.res,
                      value |-> s.value, h |-> d.h]
    IN  CHOOSE x \in {scalar(casted) : casted \in {cast_to_dt(self, dt, h)}} : TRUE

\* Tensor::eq: the kinds, the shapes and the elements are equal
TensorEq(a, b, h) ==
    /\ a.dt = b.dt
    /\ a.shape = b.shape
    /\ SelfVals(a, h) = SelfVals(b, h)

-----------------------------------------------------------------------------
(* Tensor: slice and permute_axes, through owned ndarray arrays *)

\* ArrayViewD::to_owned: the elements of the buffer of self at the (1-based)
\* positions at, cloned in that order into a Vec
to_owned(self, at, h) ==
    IF is_copy(self.dt)
    THEN [vec |-> [k \in 1..Len(at) |-> h.mem[self.data].elems[at[k]]], h |-> h]
    ELSE [vec |-> FreshObjs(h, Len(at)),
          h |-> WithFreshObjs(h, [k \in 1..Len(at) |->
                                     ValueAt(h, self.dt, self.data, at[k])])]

\* Tensor::slice.  slice_axis(Axis(axis), (start..end).into()) panics when
\* start or end is past the axis, and a range that ends before it starts is
\* an empty one; the slice is cloned into an array of its own.
slice(self, axis, start, end, h) ==
    IF axis >= rank(self) THEN [res |-> "Err", t |-> NoTensor, h |-> h]
    ELSE IF ~Readable(self, h) THEN [res |-> "UB", t |-> NoTensor, h |-> h]
    ELSE IF start > self.shape[axis + 1] \/ end > self.shape[axis + 1]
    THEN [res |-> "Panic", t |-> NoTensor, h |-> h]
    ELSE LET shape == [self.shape EXCEPT ![axis + 1] = IF end < start THEN 0 ELSE end - start]
             at == [p \in 1..Prod(shape) |->
                       ViewOffset(self.shape,
                                  [MultiIndex(shape, p - 1) EXCEPT ![axis + 1] = @ + start]) + 1]
             owned == to_owned(self, at, h)
         IN  from_copy_datum(self.dt, shape, owned.vec, owned.h)

\* dispatch_datum_by_size: the kinds that are plain bytes go by the signed
\* integer of their width, the others by themselves
by_size(dt) ==
    CASE ~is_copy(dt) -> dt
      [] size_of(dt) = 1 -> "I8"
      [] size_of(dt) = 2 -> "I16"
      [] size_of(dt) = 4 -> "I32"
      [] OTHER -> "I64"

\* a tensor that keeps the kind from_copy_datum gave it
set_datum_type_kept(self, dt) == self

\* Tensor::set_datum_type
set_datum_type(self, dt) == [self EXCEPT !.dt = dt]

\* each axis of 0..r is listed exactly once: what permuted_axes asserts
IsPermutation(axes, r) ==
    /\ Len(axes) = r
    /\ \A a \in 0..(r - 1) : Cardinality({i \in 1..r : axes[i] = a}) = 1

\* ArrayBase::is_standard_layout of an array of this shape and strides
is_standard_layout(shape, strides) ==
    \/ \E i \in 1..Len(shape) : shape[i] = 0
    \/ \A i \in 1..Len(shape) : shape[i] = 1 \/ strides[i] = RowMajor(shape)[i]

\* Tensor::permute_axes.  into_array_unchecked clones the elements into an
\* array and drops the tensor; permuted_axes panics unless axes is a
\* permutation, and permutes the shape and the strides of the array;
\* into_tensor takes the Vec of an array in standard layout over, and
\* otherwise collects clones of the elements in logical order.
permute_axes(self, axes, h) ==
    IF ~Readable(self, h) THEN [res |-> "UB", t |-> NoTensor, h |-> h] ELSE
    LET r == rank(self)
        n == len(self)
        T == by_size(self.dt)
        array == to_owned(self, [k \in 1..n |-> k], h)
        input == drop(self, array.h)
        unwound == IF is_copy(T) THEN input.h
                   ELSE [input.h EXCEPT !.objs = DropInPlace(@, array.vec)]
    IN  IF input.res = "UB" THEN [res |-> "UB", t |-> NoTensor, h |-> input.h]
        ELSE IF ~IsPermutation(axes, r) THEN [res |-> "Panic", t |-> NoTensor, h |-> unwound]
        ELSE LET shape == [i \in 1..r |-> self.shape[axes[i] + 1]]
                 strides == [i \in 1..r |-> natural_strides(self.shape)[axes[i] + 1]]
                 at == [p \in 1..n |-> Dot(MultiIndex(shape, p - 1), strides) + 1]
                 vals == [p \in 1..n |-> IF is_copy(T) THEN array.vec[at[p]]
                                         ELSE input.h.objs[array.vec[at[p]]].val]
                 t == IF is_copy(T)
                      THEN from_copy_datum(T, shape, vals, input.h)
                      ELSE IF is_standard_layout(shape, strides)
                      THEN from_copy_datum(T, shape, array.vec, input.h)
                      ELSE from_copy_datum(T, shape, FreshObjs(unwound, n),
                                           WithFreshObjs(unwound, vals))
             IN  [res |-> "Ok", t |-> set_datum_type(t.t, self.dt), h |-> t.h]

-----------------------------------------------------------------------------
(* Tensor: from_raw, zero_aligned and Hash *)

\* the elements a run of bytes denotes for a kind w bytes wide (little endian)
FromBytes(bytes, w) ==
    [k \in 1..(Len(bytes) \div w) |->
        LET b(j) == bytes[(k - 1) * w + j + 1]
        IN  IF w = 1 THEN b(0) ELSE b(0) + 256 * b(1)]

\* Tensor::as_bytes: the layout.size() bytes at data (for kinds 1 or 2 bytes wide)
as_bytes(self, h) ==
    LET w == size_of(self.dt)
        elems == Elems(h, self)
    IN  [b \in 1..self.layout.size |->
            IF (b - 1) % w = 0 THEN elems[((b - 1) \div w) + 1] % 256
            ELSE elems[((b - 1) \div w) + 1] \div 256]

\* Tensor::from_raw_dt_align: uninitialized_aligned_dt(dt, shape, align)?,
\* then as_bytes_mut().copy_from_slice(content), which panics unless the two
\* slices have the same length; the tensor is dropped by the unwinding.  The
\* bytes copied over String and TDim elements are no elements anyone wrote.
from_raw_dt_align(dt, shape, content, align, h) ==
    LET u == uninitialized_aligned_dt(dt, shape, align, h)
    IN  IF u.res # "Ok" THEN u
        ELSE IF Len(content) # u.t.layout.size
        THEN [res |-> IF drop(u.t, u.h).res = "UB" THEN "UB" ELSE "Panic",
              t |-> NoTensor, h |-> drop(u.t, u.h).h]
        ELSE IF u.t.data = NULL \/ Len(content) = 0 THEN u
        ELSE [u EXCEPT !.h.mem[u.t.data].elems =
                 IF is_copy(dt) THEN FromBytes(content, size_of(dt))
                 ELSE [k \in 1..Len(@) |-> 0]]

\* Tensor::zero_aligned: uninitialized_aligned::<T>(shape, alignment)?, then
\* clear::<T>() writes T::zero() to each element
zero_aligned(dt, shape, align, h) ==
    LET u == uninitialized_aligned_dt(dt, shape, align, h)
    IN  IF u.res # "Ok" THEN u
        ELSE [u EXCEPT !.h = write_elems(u.t, [k \in 1..len(u.t) |-> 0], u.h).h]

\* Hash for Tensor: what is fed to the hasher, in order: the kind, the
\* shape, the alignment of the layout, the slice of the elements
hash(self, h) == <<self.dt, self.shape, self.layout.align, SelfVals(self, h)>>

-----------------------------------------------------------------------------
(* Tensor: stack_tensors *)

\* T::stack_tensors(axis, tensors) of ArrayDatum: the arrays of the tensors,
\* seen as arrays of T, are concatenated along axis into an array the result
\* is made from; an error when axis is no axis of the arrays or when their
\* other axes differ
array_stack(T, axis, ts, h) ==
    IF \/ axis >= rank(ts[1])
       \/ \E k \in 1..Len(ts) : rank(ts[k]) # rank(ts[1]) \/ ~SameShapeButAxis(ts[1], ts[k], axis)
    THEN [res |-> "Err", t |-> NoTensor, h |-> h]
    ELSE IF \E k \in 1..Len(ts) : ~Readable(ts[k], h)
    THEN [res |-> "UB", t |-> NoTensor, h |-> h]
    ELSE LET \* the length along axis of the first k arrays
             total[k \in 0..Len(ts)] ==
                 IF k = 0 THEN 0 ELSE total[k - 1] + ts[k].shape[axis + 1]
             \* the array index a of the axis of the result comes from
             source(a) == CHOOSE k \in 1..Len(ts) : total[k - 1] <= a /\ a < total[k]
             shape == [ts[1].shape EXCEPT ![axis + 1] = total[Len(ts)]]
             \* the element of array k at the place of index ix of the result
             value(k, ix) ==
                 ValueAt(h, ts[k].dt, ts[k].data,
                         ViewOffset(ts[k].shape, [ix EXCEPT ![axis + 1] = @ - total[k - 1]]) + 1)
             vals == [p \in 1..Prod(shape) |->
                         value(source(MultiIndex(shape, p - 1)[axis + 1]),
                               MultiIndex(shape, p - 1))]
         IN  IF is_copy(T) THEN from_copy_datum(T, shape, vals, h)
             ELSE from_copy_datum(T, shape, FreshObjs(h, Len(vals)), WithFreshObjs(h, vals))

\* a stack_tensors that leaves the result the kind it was stacked as
stack_tensors_unlabelled(axis, ts, h) ==
    IF ts = <<>> THEN [res |-> "Panic", t |-> NoTensor, h |-> h]
    ELSE IF \E k \in 1..Len(ts) : ts[k].dt # ts[1].dt
    THEN [res |-> "ErrKind", t |-> NoTensor, h |-> h]
    ELSE array_stack(by_size(ts[1].dt), axis, ts, h)

\* Tensor::stack_tensors: the kind of tensors[0] (an index that panics on an
\* empty slice) is compared with the kind of each tensor; the match on dt
\* stacks the kinds that are plain bytes as the signed integer of their
\* width, and tensor.dt = dt gives the result its kind
stack_tensors(axis, ts, h) ==
    IF ts = <<>> THEN [res |-> "Panic", t |-> NoTensor, h |-> h]
    ELSE IF \E k \in 1..Len(ts) : ts[k].dt # ts[1].dt
    THEN [res |-> "ErrKind", t |-> NoTensor, h |-> h]
    ELSE LET tensor == array_stack(by_size(ts[1].dt), axis, ts, h)
         IN  IF tensor.res # "Ok" THEN tensor
             ELSE [tensor EXCEPT !.t.dt = ts[1].dt]

-----------------------------------------------------------------------------
(* The pulsifier of MatMulUnary *)

\* pulsify(op, _source, node, target, mapping, _pulse).  mapping[&node.inputs[0]]
\* panics when the input was not mapped; the streaming axis of the fact of
\* the input is compared with fact.shape.len() - op.b_trans as usize, a
\* subtraction of usize that overflows below 0; past the test the node is
\* wired into the target with the same name and op, on the mapped input.
pulsify(b_trans, node, target, mapped, fact) ==
    IF ~mapped THEN [res |-> "Panic", target |-> target]
    ELSE IF Len(fact.shape) < (IF b_trans THEN 1 ELSE 0)
    THEN [res |-> "Panic", target |-> target]
    ELSE IF fact.axis >= Len(fact.shape) - (IF b_trans THEN 1 ELSE 0)
    THEN [res |-> "Err", target |-> target]
    ELSE [res |-> "Ok",
          target |-> Append(target, [name |-> node, b_trans |-> b_trans, input |-> "input"])]

-----------------------------------------------------------------------------
(* Inputs of the operations *)

\* the axis lengths of the shapes handed to constructors and reshapes: a
\* unit axis and a longer one
Dims == {1, 2}

\* shapes of tensors without elements
EmptyShapes == {<<0>>, <<2, 0>>}

\* the shapes handed to constructors and reshapes
ArgShapes == SeqsUpTo(Dims, MaxArgRank) \cup EmptyShapes

\* axis and rank arguments, one past the largest rank so that out-of-range
\* arguments occur
Axes == 0..(MaxRank + 1)

\* alignments asked of uninitialized_aligned_dt: powers of two, and one that
\* alloc::Layout rejects
Alignments == {8, 3}

\* the kinds of the tensors whose shape is operated on: the shape operations
\* never look at the kind, so one kind of each construction path is taken
ShapeKinds == {"F32", "String"}

H == [mem |-> mem, objs |-> objs]

\* no assign_slice or cast_to_dt call was made yet
NoCall == [axis |-> -1]

Live == {i \in 1..Len(tensors) : IsTensor(tensors[i])}

Running == res # "Panic" /\ res # "UB"

-----------------------------------------------------------------------------
(* Construction: the initial states hold one freshly constructed tensor *)

Built(c, name) ==
    /\ c.res = "Ok"
    /\ tensors = <<c.t>>
    /\ mem = c.h.mem
    /\ objs = c.h.objs
    /\ op = name
    /\ res = "Ok"
    /\ call = NoCall

\* Tensor::uninitialized_aligned_dt(dt, shape, align)
InitUninitialized ==
    \E dt \in ShapeKinds, shape \in ArgShapes, align \in Alignments :
        Built(uninitialized_aligned_dt(dt, shape, align, EmptyHeap),
              "uninitialized_aligned_dt")

\* Tensor::from(array) of any kind: from_copy_datum of an array holding
\* 1, 2, ... (for the kinds that own heap data, fresh elements of these values)
FromArray(dt, shape, h) ==
    IF is_copy(dt)
    THEN from_copy_datum(dt, shape, [k \in 1..Prod(shape) |-> k], h)
    ELSE from_copy_datum(dt, shape, FreshObjs(h, Prod(shape)),
                         WithFreshObjs(h, [k \in 1..Prod(shape) |-> k]))

\* the shape operations never read the buffer: their runs start from
\* uninitialized_aligned_dt, which builds String tensors with from_copy_datum
Init == InitUninitialized

-----------------------------------------------------------------------------
(* The shape operations *)

\* t.set_shape(shape)
SetShape(i, shape) ==
    /\ Running
    /\ LET r == set_shape(tensors[i], shape)
       IN  /\ tensors' = [tensors EXCEPT ![i] = r.t]
           /\ res' = r.res
    /\ op' = "set_shape"
    /\ UNCHANGED <<mem, objs, call>>

\* t.into_shape(shape)
IntoShape(i, shape) ==
    /\ Running
    /\ LET r == into_shape(tensors[i], shape, H)
       IN  /\ tensors' = [tensors EXCEPT ![i] = r.t]
           /\ mem' = r.h.mem
           /\ objs' = r.h.objs
           /\ res' = r.res
    /\ op' = "into_shape"
    /\ UNCHANGED call

\* t.insert_axis(axis)
InsertAxis(i, axis) ==
    /\ Running
    /\ rank(tensors[i]) < MaxRank
    /\ LET r == insert_axis(tensors[i], axis)
       IN  /\ tensors' = [tensors EXCEPT ![i] = r.t]
           /\ res' = r.res
    /\ op' = "insert_axis"
    /\ UNCHANGED <<mem, objs, call>>

\* t.remove_axis(axis)
RemoveAxis(i, axis) ==
    /\ Running
    /\ LET r == remove_axis(tensors[i], axis)
       IN  /\ tensors' = [tensors EXCEPT ![i] = r.t]
           /\ res' = r.res
    /\ op' = "remove_axis"
    /\ UNCHANGED <<mem, objs, call>>

\* t.broadcast_to_rank(r)
BroadcastToRank(i, r) ==
    /\ Running
    /\ r <= MaxRank
    /\ LET b == broadcast_to_rank(tensors[i], r)
       IN  /\ tensors' = [tensors EXCEPT ![i] = b.t]
           /\ res' = b.res
    /\ op' = "broadcast_to_rank"
    /\ UNCHANGED <<mem, objs, call>>

DoSetShape == \E i \in Live, shape \in ArgShapes : SetShape(i, shape)

DoIntoShape == \E i \in Live, shape \in ArgShapes : IntoShape(i, shape)

DoInsertAxis == \E i \in Live, axis \in Axes : InsertAxis(i, axis)

DoRemoveAxis == \E i \in Live, axis \in Axes : RemoveAxis(i, axis)

DoBroadcastToRank == \E i \in Live, r \in Axes : BroadcastToRank(i, r)

\* the safe shape operations
Next ==
    \/ DoSetShape
    \/ DoIntoShape
    \/ DoInsertAxis
    \/ DoRemoveAxis
    \/ DoBroadcastToRank

Spec == Init /\ [][Next]_vars

-----------------------------------------------------------------------------
(* The unchecked shape operations, and cloning in place *)

\* unsafe { t.set_shape_unchecked(shape) }
SetShapeUnchecked(i, shape) ==
    /\ Running
    /\ tensors' = [tensors EXCEPT ![i] = set_shape_unchecked(tensors[i], shape)]
    /\ res' = "Ok"
    /\ op' = "set_shape_unchecked"
    /\ UNCHANGED <<mem, objs, call>>

\* t.broadcast_into_rank(r); the tensor is consumed, and dropped on error
BroadcastIntoRank(i, r) ==
    /\ Running
    /\ r <= MaxRank
    /\ LET b == broadcast_into_rank(tensors[i], r)
           h == IF b.res = "Ok" THEN H ELSE drop(tensors[i], H).h
       IN  /\ tensors' = [tensors EXCEPT ![i] = IF b.res = "Ok" THEN b.t ELSE NoTensor]
           /\ mem' = h.mem
           /\ objs' = h.objs
           /\ res' = b.res
    /\ op' = "broadcast_into_rank"
    /\ UNCHANGED call

\* t = t.deep_clone(): the clone is built, then the tensor it replaces is dropped
CloneAssign(i) ==
    /\ Running
    /\ Len(tensors) < MaxTensors
    /\ LET c == deep_clone(tensors[i], H)
           d == drop(tensors[i], c.h)
       IN  /\ tensors' = IF c.res = "Ok" THEN Append([tensors EXCEPT ![i] = NoTensor], c.t)
                         ELSE tensors
           /\ mem' = IF c.res = "Ok" THEN d.h.mem ELSE mem
           /\ objs' = IF c.res = "Ok" THEN d.h.objs ELSE objs
           /\ res' = IF c.res = "Ok" THEN d.res ELSE c.res
    /\ op' = "deep_clone"
    /\ UNCHANGED call

DoSetShapeUnchecked == \E i \in Live, shape \in ArgShapes : SetShapeUnchecked(i, shape)

DoBroadcastIntoRank == \E i \in Live, r \in Axes : BroadcastIntoRank(i, r)

DoCloneAssign == \E i \in Live : CloneAssign(i)

\* set_shape_unchecked reaches every shape whatever the first one was, so
\* these runs start from the scalar tensors
InitUnchecked == Init /\ rank(tensors[1]) = 0

NextUnchecked ==
    \/ DoSetShape
    \/ DoIntoShape
    \/ DoInsertAxis
    \/ DoRemoveAxis
    \/ DoBroadcastToRank
    \/ DoSetShapeUnchecked
    \/ DoBroadcastIntoRank
    \/ DoCloneAssign

\* every shape operation, checked or not
SpecUnchecked == InitUnchecked /\ [][NextUnchecked]_vars

-----------------------------------------------------------------------------
(* assign_slice, on a tensor the safe shape operations have worked on *)

\* the shapes of the tensors assigned into: a vector and a matrix, with an
\* axis long enough for two ranges of two to overlap
AssignShapes == {<<3>>, <<2, 3>>}

\* a kind that is copied as bytes, and one that is cloned element by element
AssignKinds == {"I32", "String"}

\* the range arguments: a..b, .., a.., ..=b, (Excluded(a), Excluded(b)), a
\* range that ends before it starts, and one that ends past every axis
Ranges ==
    {[start |-> Included(0), end |-> Excluded(1)],
     [start |-> Included(0), end |-> Excluded(2)],
     [start |-> Included(1), end |-> Excluded(3)],
     [start |-> Unbounded, end |-> Unbounded],
     [start |-> Included(1), end |-> Unbounded],
     [start |-> Unbounded, end |-> Included(1)],
     [start |-> Excluded(0), end |-> Excluded(2)],
     [start |-> Included(3), end |-> Excluded(1)],
     [start |-> Included(0), end |-> Excluded(4)]}

\* the src_range arguments: a..b within the axis or past it, and ..
SrcRanges ==
    {[start |-> Included(0), end |-> Excluded(1)],
     [start |-> Included(0), end |-> Excluded(2)],
     [start |-> Included(1), end |-> Excluded(3)],
     [start |-> Unbounded, end |-> Unbounded],
     [start |-> Included(0), end |-> Excluded(4)]}

\* the axis arguments, one past the largest rank
AssignAxes == 0..MaxAssignRank

\* the shapes of the tensors assigned from: the shape of self, the same with
\* another length on one axis, and one of another rank
SrcShapes(self) ==
    {self.shape, Append(self.shape, 1)}
        \cup {[self.shape EXCEPT ![k] = m] : k \in 1..rank(self), m \in {2, 3}}

\* a tensor built for the call, Tensor::from(array), holding 11, 12, ...
SrcTensor(dt, shape, h) ==
    IF is_copy(dt)
    THEN from_copy_datum(dt, shape, [k \in 1..Prod(shape) |-> 10 + k], h)
    ELSE from_copy_datum(dt, shape,
                         [k \in 1..Prod(shape) |-> Len(h.objs) + k],
                         WithFreshObjs(h, [k \in 1..Prod(shape) |-> 10 + k]))

InitAssign ==
    \E dt \in AssignKinds, shape \in AssignShapes :
        Built(FromArray(dt, shape, EmptyHeap), "from_copy_datum")

\* t.assign_slice(range, &src, src_range, axis), src living on the heap h
AssignSlice(i, range, src, h, src_range, axis) ==
    /\ Running
    /\ LET r == assign_slice(tensors[i], range, src, src_range, axis, h)
       IN  /\ mem' = r.h.mem
           /\ objs' = r.h.objs
           /\ res' = r.res
    /\ op' = "assign_slice"
    /\ call' = [self |-> i, range |-> range, src |-> src, src_range |-> src_range,
                axis |-> axis]
    /\ UNCHANGED tensors

\* the source is another tensor, of the same kind or not
DoAssignSlice ==
    \E i \in Live, axis \in AssignAxes, range \in Ranges, src_range \in SrcRanges :
        \E dt \in AssignKinds, shape \in SrcShapes(tensors[i]) :
            /\ dt = tensors[i].dt \/ shape = tensors[i].shape
            /\ LET c == SrcTensor(dt, shape, H)
               IN  AssignSlice(i, range, c.t, c.h, src_range, axis)

\* the source is the tensor itself: self.data == src.data
DoAssignSliceSelf ==
    \E i \in Live, axis \in AssignAxes, range \in Ranges, src_range \in SrcRanges :
        AssignSlice(i, range, tensors[i], H, src_range, axis)

\* the tensors stay within MaxAssignRank axes
SmallRank == \A i \in Live : rank(tensors[i]) < MaxAssignRank

DoBroadcastToSmallRank == \E i \in Live, r \in AssignAxes : BroadcastToRank(i, r)

\* a run shapes a tensor, then makes one assign_slice call
NextAssign ==
    \/ call = NoCall /\ DoSetShape
    \/ call = NoCall /\ SmallRank /\ DoInsertAxis
    \/ call = NoCall /\ DoRemoveAxis
    \/ call = NoCall /\ DoBroadcastToSmallRank
    \/ call = NoCall /\ DoAssignSlice
    \/ call = NoCall /\ DoAssignSliceSelf

SpecAssign == InitAssign /\ [][NextAssign]_vars

-----------------------------------------------------------------------------
(* Cloning and dropping *)

InitClone ==
    \E dt \in DatumTypes, shape \in ArgShapes :
        Built(FromArray(dt, shape, EmptyHeap), "from_copy_datum")

\* let c = t.clone(): Clone for Tensor is deep_clone
Clone(i) ==
    /\ Running
    /\ Len(tensors) < MaxTensors
    /\ LET c == deep_clone(tensors[i], H)
       IN  /\ tensors' = IF c.res = "Ok" THEN Append(tensors, c.t) ELSE tensors
           /\ mem' = c.h.mem
           /\ objs' = c.h.objs
           /\ res' = c.res
    /\ op' = "clone"
    /\ UNCHANGED call

\* drop(t)
Drop(i) ==
    /\ Running
    /\ LET d == drop(tensors[i], H)
       IN  /\ tensors' = [tensors EXCEPT ![i] = NoTensor]
           /\ mem' = d.h.mem
           /\ objs' = d.h.objs
           /\ res' = d.res
    /\ op' = "drop"
    /\ UNCHANGED call

DoClone == \E i \in Live : Clone(i)

DoDrop == \E i \in Live : Drop(i)

NextClone ==
    \/ DoClone
    \/ DoDrop

\* tensors of every kind, cloned and dropped
SpecClone == InitClone /\ [][NextClone]_vars

\* the tensors that are shaped, cloned and dropped: those of the shape
\* operations, and Blob tensors.  uninitialized_aligned_dt leaves the
\* elements of a Blob tensor unwritten, for its caller to write; the Blob
\* tensors here come from arrays
InitOwn ==
    \/ InitUninitialized
    \/ \E shape \in ArgShapes :
           Built(FromArray("Blob", shape, EmptyHeap), "from_copy_datum")

NextOwn ==
    \/ DoSetShape
    \/ DoIntoShape
    \/ SmallRank /\ DoInsertAxis
    \/ DoRemoveAxis
    \/ DoBroadcastToSmallRank
    \/ DoClone
    \/ DoDrop

\* tensors built, shaped by the safe shape operations, cloned and dropped
SpecOwn == InitOwn /\ [][NextOwn]_vars

-----------------------------------------------------------------------------
(* Pulsifying a MatMulUnary node *)

\* a MatMulUnary node whose input is pulsed already: the fact of the input
\* has a shape of one axis or more and streams along one of its axes; no
\* tensor is involved
InitPulse ==
    /\ tensors = <<>>
    /\ mem = <<>>
    /\ objs = <<>>
    /\ res = "Ok"
    /\ op = "source"
    /\ \E b_trans \in BOOLEAN, mapped \in BOOLEAN, shape \in SeqsUpTo(Dims, MaxAssignRank) \ {<<>>} :
          \E axis \in 0..(Len(shape) - 1) :
              call = [b_trans |-> b_trans, mapped |-> mapped,
                      fact |-> [axis |-> axis, shape |-> shape], target |-> <<>>]

\* the pulsifier runs on the node
Pulsify ==
    /\ Running
    /\ LET r == pulsify(call.b_trans, "matmul", call.target, call.mapped, call.fact)
       IN  /\ res' = r.res
           /\ call' = [call EXCEPT !.target = r.target]
    /\ op' = "pulsify"
    /\ UNCHANGED <<tensors, mem, objs>>

\* the node is pulsified once
NextPulse ==
    \/ op = "source" /\ Pulsify

SpecPulse == InitPulse /\ [][NextPulse]_vars

-----------------------------------------------------------------------------
(* Stacking *)

\* one more tensor, Tensor::from(array), of the shape of the first one
PushArray(dt) ==
    /\ Running
    /\ Len(tensors) < MaxTensors
    /\ LET c == SrcTensor(dt, tensors[1].shape, H)
       IN  /\ tensors' = Append(tensors, c.t)
           /\ mem' = c.h.mem
           /\ objs' = c.h.objs
           /\ res' = c.res
    /\ op' = "from_copy_datum"
    /\ UNCHANGED call

\* let s = Tensor::stack_tensors(axis, &[&t_i, ...])
StackTensors(axis, ids) ==
    /\ Running
    /\ LET r == stack_tensors(axis, [k \in 1..Len(ids) |-> tensors[ids[k]]], H)
       IN  /\ tensors' = IF r.res = "Ok" THEN Append(tensors, r.t) ELSE tensors
           /\ mem' = r.h.mem
           /\ objs' = r.h.objs
           /\ res' = r.res
    /\ call' = [axis |-> axis, ids |-> ids]
    /\ op' = "stack_tensors"

\* tensors of every kind, their clones and tensors of two more kinds, then
\* one stack_tensors of one or two of them
NextStack ==
    \/ call = NoCall /\ DoClone
    \/ call = NoCall /\ \E dt \in AssignKinds : PushArray(dt)
    \/ call = NoCall /\ \E axis \in 0..MaxArgRank, ids \in SeqsUpTo(Live, 2) \ {<<>>} :
                            StackTensors(axis, ids)

SpecStack == InitClone /\ [][NextStack]_vars

-----------------------------------------------------------------------------
(* Construction from raw bytes, with an alignment *)

\* the kinds, shapes and alignments of the tensors built from bytes and from
\* zeros: elements 1 and 2 bytes wide; alignments that fit them, and one that
\* alloc::Layout rejects
RawInputs == [dt : {"U8", "I16"}, shape : {<<>>, <<0>>, <<2>>, <<1, 2>>}, align : {8, 16, 3}]

InitRaw ==
    \E a \in RawInputs : Built(zero_aligned(a.dt, a.shape, a.align, EmptyHeap), "zero_aligned")

\* let t = Tensor::from_raw_dt_align(dt, shape, content, align)
FromRawDtAlign(dt, shape, content, align) ==
    /\ Running
    /\ Len(tensors) < MaxTensors
    /\ LET r == from_raw_dt_align(dt, shape, content, align, H)
       IN  /\ tensors' = IF r.res = "Ok" THEN Append(tensors, r.t) ELSE tensors
           /\ mem' = r.h.mem
           /\ objs' = r.h.objs
           /\ res' = r.res
    /\ call' = [dt |-> dt, shape |-> shape, content |-> content, align |-> align]
    /\ op' = "from_raw_dt_align"

\* the contents are runs of bytes shorter than, as long as and longer than
\* the tensors
NextRaw ==
    \/ call = NoCall /\ \E a \in RawInputs, content \in SeqsUpTo({0, 1}, MaxContent) :
                            FromRawDtAlign(a.dt, a.shape, content, a.align)
    \/ DoClone

SpecRaw == InitRaw /\ [][NextRaw]_vars

-----------------------------------------------------------------------------
(* Slicing and permuting *)

\* the arrays sliced and permuted: no axis, an empty axis, unit axes, and
\* up to three axes
InitView ==
    \E dt \in ShapeKinds, shape \in {<<>>, <<0>>, <<3>>, <<2, 3>>, <<1, 2>>, <<2, 1, 2>>} :
        Built(FromArray(dt, shape, EmptyHeap), "from_copy_datum")

\* let s = t.slice(axis, start, end)
Slice(i, axis, start, end) ==
    /\ Running
    /\ LET r == slice(tensors[i], axis, start, end, H)
       IN  /\ tensors' = IF r.res = "Ok" THEN Append(tensors, r.t) ELSE tensors
           /\ mem' = r.h.mem
           /\ objs' = r.h.objs
           /\ res' = r.res
    /\ call' = [self |-> i, axis |-> axis, start |-> start, end |-> end]
    /\ op' = "slice"

\* let t = t.permute_axes(axes): the tensor is consumed
PermuteAxes(i, axes) ==
    /\ Running
    /\ LET r == permute_axes(tensors[i], axes, H)
       IN  /\ tensors' = [tensors EXCEPT ![i] = r.t]
           /\ mem' = r.h.mem
           /\ objs' = r.h.objs
           /\ res' = r.res
    /\ call' = [self |-> i, axes |-> axes]
    /\ op' = "permute_axes"

\* a run makes one call: a slice with bounds up to past the longest axis, or
\* a permute_axes with a permutation or with a sequence that is too short,
\* too long, repeats an axis or names one past the rank
NextView ==
    \/ call = NoCall /\ \E axis \in AssignAxes, start \in 0..4, end \in 0..4 :
                            Slice(1, axis, start, end)
    \/ call = NoCall /\ \E axes \in SeqsUpTo(0..MaxAssignRank, MaxAssignRank) :
                            PermuteAxes(1, axes)

SpecView == InitView /\ [][NextView]_vars

-----------------------------------------------------------------------------
(* Casting *)

\* the elements of the tensors that are cast, repeated over the shape:
\* numbers that fit the kind, texts that parse and texts that do not,
\* dimensions known and symbolic
CastValues(dt) ==
    CASE dt = "Bool" -> {<<0, 1>>, <<1>>}
      [] dt = "U8" -> {<<0, 1>>, <<200, 2>>}
      [] dt = "I8" -> {<<0, 1>>, <<100, 2>>}
      [] is_copy(dt) -> {<<0, 1>>, <<300, 2>>}
      [] dt = "String" -> {<< <<"3">>, <<"4">> >>, << <<"x">> >>,
                           << <<"-", "1">>, <<"3", "0", "0">> >>,
                           << <<"t", "r", "u", "e">>, <<>> >>}
      [] dt = "TDim" -> {<< <<"2">>, <<"3">> >>, << <<"S">>, <<"1">> >>}
      [] OTHER -> {<< <<"a", "b">> >>}

\* Tensor::from(array) of the given elements, repeated over the shape
FromValues(dt, shape, vs, h) ==
    LET vals == [k \in 1..Prod(shape) |-> vs[((k - 1) % Len(vs)) + 1]]
    IN  IF is_copy(dt) THEN from_copy_datum(dt, shape, vals, h)
        ELSE from_copy_datum(dt, shape, FreshObjs(h, Len(vals)), WithFreshObjs(h, vals))

InitCast ==
    \E dt \in DatumTypes, shape \in ArgShapes :
        \E vs \in CastValues(dt) :
            Built(FromValues(dt, shape, vs, EmptyHeap), "from_copy_datum")

\* let c = t.cast_to_dt(dt); an owned result is one more tensor
CastToDt(i, dt) ==
    /\ Running
    /\ LET r == cast_to_dt(tensors[i], dt, H)
       IN  /\ tensors' = IF r.cow = "Owned" THEN Append(tensors, r.t) ELSE tensors
           /\ mem' = r.h.mem
           /\ objs' = r.h.objs
           /\ res' = r.res
           /\ call' = [self |-> i, dt |-> dt, cow |-> r.cow, t |-> r.t,
                       naming |-> IF "naming" \in DOMAIN r THEN r.naming ELSE <<>>]
    /\ op' = "cast_to_dt"

DoCastToDt == \E dt \in DatumTypes : CastToDt(1, dt)

\* let x = t.cast_to_scalar::<D>(), D: Datum + Copy
CastToScalar(i, dt) ==
    /\ Running
    /\ \E r \in {cast_to_scalar(tensors[i], dt, H)} :
           /\ mem' = r.h.mem
           /\ objs' = r.h.objs
           /\ res' = r.res
           /\ call' = [self |-> i, dt |-> dt, value |-> r.value]
    /\ op' = "cast_to_scalar"
    /\ UNCHANGED tensors

\* a run makes one cast_to_dt call
NextCast ==
    \/ call = NoCall /\ DoCastToDt

\* tensors of every kind, cast to every kind
SpecCast == InitCast /\ [][NextCast]_vars

\* a run makes one cast_to_scalar call, D being any of the Copy kinds
NextScalar ==
    \/ call = NoCall /\ \E dt \in {d \in DatumTypes : is_copy(d)} : CastToScalar(1, dt)

\* tensors of every kind, cast to a scalar of every Copy kind
SpecScalar == InitCast /\ [][NextScalar]_vars

-----------------------------------------------------------------------------
(* Reshaping *)

C2_ReshapeGivesRowMajorStrides ==
    [][\A s \in ArgShapes :
          (op' = "set_shape" /\ res' = "Ok" /\ SetShape(1, s)) =>
              /\ tensors'[1].shape = s
              /\ tensors'[1].strides = RowMajor(s)]_vars

\* C3: the product of the shape times the byte width of the kind is the byte
\* size of the layout of the allocation, in every state the safe shape
\* operations reach.
C3_ShapeMatchesLayout ==
    \A i \in Live :
        Running => Prod(tensors[i].shape) * size_of(tensors[i].dt) = tensors[i].layout.size

\* C4: a tensor has as many strides as axes, after every constructor and
\* every shape operation that returns.
C4_OneStridePerAxis ==
    \A i \in Live : Running => Len(tensors[i].strides) = Len(tensors[i].shape)

\* a tensor of a rank beyond the ranks compute_natural_stride_to spells out,
\* whose strides were just recomputed
C4_Witness ==
    /\ op = "set_shape_unchecked" \/ op = "broadcast_into_rank"
    /\ res = "Ok"
    /\ \E i \in Live : rank(tensors[i]) > 4

-----------------------------------------------------------------------------
(* Slice assignment *)

\* the length of an axis, 0 for an axis the tensor does not have
AxisLen(t, axis) == IF axis < rank(t) THEN t.shape[axis + 1] ELSE 0

\* the half-open range a range argument denotes on an axis
Denoted(t, axis, range) ==
    [start |-> CASE range.start.kind = "Included" -> range.start.ix
                 [] range.start.kind = "Excluded" -> range.start.ix + 1
                 [] OTHER -> 0,
     end |-> CASE range.end.kind = "Included" -> range.end.ix + 1
               [] range.end.kind = "Excluded" -> range.end.ix
               [] OTHER -> AxisLen(t, axis)]

\* self after the call holds, at axis-index range.start + k, the value the
\* source (read on the heap hs) holds at axis-index src_range.start + k, and
\* outside the range the value it held before (on the heap before)
SliceCopied(self, c, hs, before, after) ==
    LET r == Denoted(self, c.axis, c.range)
        sr == Denoted(c.src, c.axis, c.src_range)
    IN  \A p \in 0..(len(self) - 1) :
            LET ix == MultiIndex(self.shape, p)
                a == ix[c.axis + 1]
                at == ViewOffset(self.shape, ix) + 1
            IN  IF a >= r.start /\ a < r.end
                THEN ValueAt(after, self.dt, self.data, at)
                        = ValueAt(hs, self.dt, c.src.data,
                                  ViewOffset(c.src.shape,
                                             [ix EXCEPT ![c.axis + 1] = sr.start + (a - r.start)]) + 1)
                ELSE ValueAt(after, self.dt, self.data, at)
                        = ValueAt(before, self.dt, self.data, at)

\* C5: after assign_slice(range, src, src_range, axis) returns Ok on a
\* tensor shaped by set_shape, insert_axis, remove_axis and
\* broadcast_to_rank, with src another tensor, every element of self in the
\* range equals the matching element of src and every element outside the
\* range is unchanged, on the raw-copy path and on the element-wise path.
C5_AssignSliceCopiesTheRange ==
    [][(/\ op' = "assign_slice"
        /\ res' = "Ok"
        /\ call'.src.data # tensors[call'.self].data)
          => SliceCopied(tensors[call'.self], call', [mem |-> mem', objs |-> objs'],
                         H, [mem |-> mem', objs |-> objs'])]_vars

\* the two ranges denote overlapping, non-empty parts of the axis
Overlapping(self, c) ==
    LET r == Denoted(self, c.axis, c.range)
        sr == Denoted(c.src, c.axis, c.src_range)
    IN  r.start < r.end /\ sr.start < sr.end /\ r.start < sr.end /\ sr.start < r.end

\* C6: assign_slice from the tensor's own buffer with overlapping ranges
\* leaves the buffer as copying the source range to a temporary and writing
\* the temporary into the destination range would: the range holds the
\* values the source range held before the call, the rest is unchanged,
\* whatever the axis and the kind.
C6_SelfAssignAsThroughTemporary ==
    [][(/\ op' = "assign_slice"
        /\ res' = "Ok"
        /\ call'.src.data = tensors[call'.self].data
        /\ Overlapping(tensors[call'.self], call'))
          => SliceCopied(tensors[call'.self], call', H, H,
                         [mem |-> mem', objs |-> objs'])]_vars

\* the first of the five checks that fails, in the order kinds, range
\* lengths, rank and shapes off the axis, source range, destination range
FirstFailingCheck(self, c) ==
    LET r == Denoted(self, c.axis, c.range)
        sr == Denoted(c.src, c.axis, c.src_range)
    IN  CASE c.src.dt # self.dt -> "ErrDatumType"
          [] OTHER ->
        CASE RangeLen(sr) # RangeLen(r) -> "ErrRangeLen"
          [] OTHER ->
        CASE \/ rank(c.src) # rank(self)
             \/ \E k \in 1..rank(self) : k - 1 # c.axis /\ c.src.shape[k] # self.shape[k]
               -> "ErrShape"
          [] OTHER ->
        CASE c.axis >= rank(c.src) \/ sr.end > AxisLen(c.src, c.axis) -> "ErrSrcRange"
          [] OTHER ->
        CASE c.axis >= rank(self) \/ r.end > AxisLen(self, c.axis) -> "ErrDstRange"
          [] OTHER -> "Ok"

\* C7: when one of the five checks of assign_slice fails, the call returns
\* the error of the first failing check, does not panic, and leaves the
\* buffer and the metadata of self as they were.
C7_AssignSliceFailsCleanly ==
    [][op' = "assign_slice" =>
          LET self == tensors[call'.self]
              want == FirstFailingCheck(self, call')
          IN  want # "Ok" =>
                 /\ res' = want
                 /\ tensors' = tensors
                 /\ mem'[self.data] = mem[self.data]]_vars

-----------------------------------------------------------------------------
(* Ownership of the elements and of the buffer *)

\* the elements a tensor owns: the len() first elements of its buffer, for
\* the kinds that own heap data
OwnedBy(i) ==
    IF is_copy(tensors[i].dt) THEN {}
    ELSE {Elems(H, tensors[i])[k] : k \in 1..len(tensors[i])}

\* C8: cloning gives a tensor of any kind a buffer of its own, and gives a
\* TDim, String or Blob tensor elements of its own: no heap-owning element
\* is owned by two live tensors, no destructor runs twice, and once the
\* original and every clone are dropped each element was destroyed once.
C8_CloneOwnsItsElements ==
    /\ \A i, j \in Live :
          i # j =>
             /\ OwnedBy(i) \cap OwnedBy(j) = {}
             /\ tensors[i].data = NULL \/ tensors[i].data # tensors[j].data
    /\ \A o \in 1..Len(objs) : objs[o].drops <= 1
    /\ Live = {} => \A o \in 1..Len(objs) : objs[o].drops = 1
    /\ res # "UB"

\* C9: dropping a tensor that was built by uninitialized_aligned_dt,
\* from_copy_datum or deep_clone and altered by safe shape operations runs
\* the destructor of each element its buffer holds, then releases the
\* buffer exactly when it was allocated, with the layout of the allocation.
C9_DropReleasesWhatWasAllocated ==
    [][\A i \in Live :
          (op' = "drop" /\ tensors'[i] = NoTensor) =>
             LET t == tensors[i]
                 held == Elems(H, t)
             IN  /\ res' = "Ok"
                 /\ ~is_copy(t.dt) =>
                       \A k \in 1..Len(held) :
                           /\ held[k] \in 1..Len(objs)
                           /\ objs'[held[k]].drops = objs[held[k]].drops + 1
                 /\ t.data # NULL =>
                       mem'[t.data].deallocs =
                           IF mem[t.data].allocated THEN <<mem[t.data].layout>> ELSE <<>>]_vars

-----------------------------------------------------------------------------
(* Casting *)

\* C10: cast_to_dt to the kind the tensor has returns the tensor itself,
\* borrowed: no buffer is allocated, no element is copied, and what is
\* returned is equal to the tensor.
C10_IdentityCastBorrows ==
    [][(op' = "cast_to_dt" /\ call'.dt = tensors[call'.self].dt) =>
          /\ res' = "Ok"
          /\ call'.cow = "Borrowed"
          /\ call'.t = tensors[call'.self]
          /\ TensorEq(call'.t, tensors[call'.self], H)
          /\ mem' = mem
          /\ objs' = objs
          /\ tensors' = tensors]_vars

\* a tensor with elements that own heap data was cast to its own kind
C10_Witness ==
    /\ op = "cast_to_dt"
    /\ call.dt = tensors[call.self].dt
    /\ ~is_copy(call.dt)
    /\ len(tensors[call.self]) > 1
    /\ call.cow = "Borrowed"

\* pairs of kinds no conversion rule covers, among those cast_to_dt decides
\* without the dispatch over the kinds of strings: to Blob, from Blob,
\* Bool to TDim and TDim to Bool
Untabulated(source, target) ==
    /\ source # target
    /\ source # "String" /\ target # "String"
    /\ \/ target = "Blob"
       \/ source = "Blob"
       \/ source = "Bool" /\ target = "TDim"
       \/ source = "TDim" /\ target = "Bool"

\* C11: for a pair of kinds that no conversion rule covers, cast_to_dt
\* returns an error: it does not panic and it returns no tensor.
C11_UntabulatedCastIsAnError ==
    [][(op' = "cast_to_dt" /\ Untabulated(tensors[call'.self].dt, call'.dt)) =>
          /\ res' = "Err"
          /\ call'.cow = "None"
          /\ tensors' = tensors]_vars

\* C12: casting a String tensor to a numeric kind fails as a whole, with an
\* error naming an element that does not parse, when there is one;
\* otherwise it returns a tensor of the target kind and of the same shape
\* whose elements are the parsed elements of the source.  Either way the
\* source tensor is as it was.
C12_StringCastParsesEveryElement ==
    [][(/\ op' = "cast_to_dt"
        /\ tensors[call'.self].dt = "String"
        /\ is_integer(call'.dt) \/ is_float(call'.dt)) =>
          LET self == tensors[call'.self]
              texts == SelfVals(self, H)
              after == [mem |-> mem', objs |-> objs']
          IN  /\ tensors'[call'.self] = self
              /\ SelfVals(self, after) = texts
              /\ \A k \in 1..Len(texts) : objs'[Elems(H, self)[k]].drops = 0
              /\ IF \E k \in 1..Len(texts) : ~parse(call'.dt, texts[k]).ok
                 THEN /\ res' = "Err"
                      /\ call'.cow = "None"
                      /\ \E k \in 1..Len(texts) :
                            call'.naming = texts[k] /\ ~parse(call'.dt, texts[k]).ok
                 ELSE /\ res' = "Ok"
                      /\ call'.cow = "Owned"
                      /\ call'.t.dt = call'.dt
                      /\ call'.t.shape = self.shape
                      /\ SelfVals(call'.t, after)
                            = [k \in 1..Len(texts) |-> parse(call'.dt, texts[k]).v]]_vars

\* a String tensor of several elements was cast to an integer kind, and an
\* element did not parse
C12_WitnessError ==
    /\ op = "cast_to_dt"
    /\ tensors[call.self].dt = "String"
    /\ is_integer(call.dt)
    /\ len(tensors[call.self]) > 1
    /\ res = "Err"

\* C13: cast_to_scalar gives a value only for a tensor of rank 0; for a
\* tensor of rank 1 or more, with or without elements, it returns an error
\* and does not read the first element.  (The element of a rank-0 tensor is
\* returned cast when the cast succeeds.)
C13_CastToScalarRequiresRankZero ==
    [][op' = "cast_to_scalar" =>
          LET self == tensors[call'.self]
          IN  IF rank(self) = 0
              THEN res' \in {"Ok", "Err"}
              ELSE res' = "Err"]_vars

-----------------------------------------------------------------------------
(* Slicing and permuting: the claims *)

\* C14: slice(axis, start, end) returns an error, and does not panic,
\* whenever axis >= rank, end > shape[axis] or start > end; otherwise it
\* returns a new tensor with a buffer of its own, of the same kind, whose
\* shape is that of self with end - start on the axis and whose elements are
\* those of self at the axis-indices start..end, in order.
C14_SliceOutOfRangeIsAnError ==
    [][op' = "slice" =>
          LET self == tensors[call'.self]
              c == call'
              after == [mem |-> mem', objs |-> objs']
          IN  IF c.axis >= rank(self) \/ c.end > AxisLen(self, c.axis) \/ c.start > c.end
              THEN res' = "Err" /\ tensors' = tensors
              ELSE /\ res' = "Ok"
                   /\ Len(tensors') = Len(tensors) + 1
                   /\ LET s == tensors'[Len(tensors')]
                      IN  /\ s.dt = self.dt
                          /\ s.shape = [self.shape EXCEPT ![c.axis + 1] = c.end - c.start]
                          /\ len(s) > 0 => s.data # self.data
                          /\ \A p \in 0..(len(s) - 1) :
                                ValueAt(after, s.dt, s.data, p + 1)
                                   = ValueAt(H, self.dt, self.data,
                                             ViewOffset(self.shape,
                                                 [MultiIndex(s.shape, p) EXCEPT
                                                     ![c.axis + 1] = @ + c.start]) + 1)]_vars

\* C15: permute_axes(order) returns an error, and neither panics nor
\* returns a tensor, whenever order is not a permutation of 0..rank.
C15_BadPermutationIsAnError ==
    [][(op' = "permute_axes" /\ ~IsPermutation(call'.axes, rank(tensors[call'.self]))) =>
          res' = "Err"]_vars

\* C16: for a permutation order of the axes, permute_axes(order) returns a
\* tensor of the same kind whose shape[i] is the original shape[order[i]],
\* whose strides are the row-major strides of that shape, and whose element
\* at (j_0, ..., j_{r-1}) is the original element at the multi-index that
\* has j_i at position order[i].
C16_PermuteAxesMovesTheElements ==
    [][(op' = "permute_axes" /\ IsPermutation(call'.axes, rank(tensors[call'.self]))) =>
          LET self == tensors[call'.self]
              axes == call'.axes
              t == tensors'[call'.self]
              after == [mem |-> mem', objs |-> objs']
          IN  /\ res' = "Ok"
              /\ t.dt = self.dt
              /\ t.shape = [i \in 1..rank(self) |-> self.shape[axes[i] + 1]]
              /\ t.strides = RowMajor(t.shape)
              /\ \A p \in 0..(len(t) - 1) :
                    LET j == MultiIndex(t.shape, p)
                        ix == [a \in 1..rank(self) |->
                                  j[CHOOSE i \in 1..rank(self) : axes[i] + 1 = a]]
                    IN  ValueAt(after, t.dt, t.data, p + 1)
                           = ValueAt(H, self.dt, self.data, ViewOffset(self.shape, ix) + 1)]_vars

\* a tensor of two axes longer than 1 was transposed
C16_Witness ==
    /\ op = "permute_axes"
    /\ res = "Ok"
    /\ call.axes = <<1, 0>>
    /\ tensors[1].shape = <<3, 2>>

-----------------------------------------------------------------------------
(* Construction from raw bytes and hashing: the claims *)

\* C17: from_raw_dt_align returns an error, and neither panics nor returns
\* a tensor, whenever the byte length of the content differs from the
\* product of the shape times the byte width of the kind; when the lengths
\* match, the bytes of the new tensor are the content.
C17_FromRawChecksTheLength ==
    [][(op' = "from_raw_dt_align" /\ IsPow2(call'.align)) =>
          IF Len(call'.content) # Prod(call'.shape) * size_of(call'.dt)
          THEN res' = "Err" /\ tensors' = tensors
          ELSE /\ res' = "Ok"
               /\ as_bytes(tensors'[Len(tensors')], [mem |-> mem', objs |-> objs'])
                     = call'.content]_vars

\* C19: two tensors that are equal (same kind, same shape, equal elements)
\* have the same hash, whatever constructors and alignments made them: a
\* tensor built with an alignment and its clone, a tensor of zeros and a
\* tensor of the same bytes built with another alignment.
C19_EqualTensorsHashEqual ==
    \A i \in Live, j \in Live :
        (Running /\ TensorEq(tensors[i], tensors[j], H)) =>
            hash(tensors[i], H) = hash(tensors[j], H)

-----------------------------------------------------------------------------
(* Stacking: the claim *)

\* C18: stack_tensors of a non-empty sequence of tensors returns the error
\* of mismatching kinds whenever the kind of an input differs from the kind
\* of the first; otherwise the kind of the result is the common kind of the
\* inputs, for each of the 15 kinds, although the elements are stacked as
\* signed integers of the same width.
C18_StackKeepsTheKind ==
    [][op' = "stack_tensors" =>
          LET ts == [k \in 1..Len(call'.ids) |-> tensors[call'.ids[k]]]
          IN  IF \E k \in 1..Len(ts) : ts[k].dt # ts[1].dt
              THEN res' = "ErrKind" /\ tensors' = tensors
              ELSE /\ res' \in {"Ok", "Err"}
                   /\ res' = "Ok" => tensors'[Len(tensors')].dt = ts[1].dt]_vars

\* two F32 tensors with elements were stacked
C18_Witness ==
    /\ op = "stack_tensors"
    /\ res = "Ok"
    /\ Len(call.ids) = 2
    /\ tensors[1].dt = "F32"
    /\ tensors[Len(tensors)].shape = <<2, 2>>
    /\ tensors[Len(tensors)].dt = "F32"

-----------------------------------------------------------------------------
(* Pulsifying: the claim *)

\* C20: pulsify of a MatMulUnary returns the error "Can not pulsify
\* MatMulUnaryA on the k dimension" whenever the streaming axis of the input
\* fact is the k axis of the input, the second-to-last axis when b_trans is
\* false and the last axis when b_trans is true, and wires the node
\* unchanged for every other streaming axis; shape.len() - b_trans does not
\* underflow.
C20_PulsifyRejectsTheKAxis ==
    [][(op' = "pulsify" /\ call.mapped) =>
          LET r == Len(call.fact.shape)
              k == IF call.b_trans THEN r - 1 ELSE r - 2
          IN  IF call.fact.axis = k
              THEN res' = "Err" /\ call'.target = call.target
              ELSE /\ res' = "Ok"
                   /\ call'.target = <<[name |-> "matmul", b_trans |-> call.b_trans,
                                        input |-> "input"]>>]_vars

====
